---- MODULE Spec2Model ----
(***************************************************************************)
(* Write-back block cache of a2retronet (block_cache.c) and the device     *)
(* boundary it calls (diskio.c).  Pointers into s_cache are pool indices,  *)
(* the null pointer is NULL.  Every public function is one atomic action   *)
(* (the cache is single-threaded, run-to-completion).                      *)
(***************************************************************************)
EXTENDS Integers, Sequences, FiniteSets, TLC

\* ---------------------------------------------------------------- bounds
\* Pool size (128 in the source) and bucket count (257 in the source),
\* scaled down so that full-cache and colliding-bucket cases are reached.
CACHE_SIZE == 2
HASH_SIZE == 2
\* Number of cache calls explored after init.
MaxOps == 4
\* Number of glue-layer calls (disk_read, disk_write, disk_task,
\* disk_ioctl) explored after init.
MaxGlueOps == 3

\* ------------------------------------------------------------ constants
NULL == -1
RES_OK == 0
RES_ERROR == 1
RES_PARERR == 4
DEV_SD == 0
DEV_USB == 1
\* A drive number that no case of the drive switches handles.
DEV_OTHER == 2

\* Results a device driver call can produce besides RES_OK.
DevErrors == {RES_ERROR}
DevResults == {RES_OK} \cup DevErrors

\* The build with MEDIUM == USB: both drive numbers reach a driver.
Drives == {DEV_SD, DEV_USB}
\* The blocks the callers address: one more key than there are slots, so
\* that a full cache can miss, with one sector number on both drives.
Keys == {<<DEV_SD, s>> : s \in 0..(CACHE_SIZE - 1)} \cup {<<DEV_USB, 0>>}
\* The same with one block of the unhandled drive: the cached entry points
\* disk_read and disk_write pass any drive number on to the cache.
AllKeys == Keys \cup {<<DEV_OTHER, 0>>}
\* The blocks of the device: those above and the block after the last
\* sector of DEV_SD, which multi-sector transfers and read-ahead reach.
DevKeys == Keys \cup {<<DEV_SD, CACHE_SIZE>>}
\* Block payloads (a whole 512-byte block is one abstract value): what
\* the device holds at the start, and what callers write.
InitData == "orig"
WriteData == {"new"}
\* Two payloads that differ, for telling the latest write from an older one.
WriteVersions == {"new", "newer"}
Data == {InitData} \cup WriteData \cup WriteVersions
\* No payload: out_data is NULL, or the call produced no data.
NoData == "none"

Slots == 0..(CACHE_SIZE - 1)
Buckets == 0..(HASH_SIZE - 1)

VARIABLES
    s_cache,        \* [Slots -> cache_entry]
    s_hash_table,   \* [Buckets -> Slots \cup {NULL}]
    s_dirty_blocks, \* BOOLEAN
    s_lru_head, s_lru_tail, s_free_head,  \* Slots \cup {NULL}
    s_evict_error,  \* DRESULT
    dev,            \* device content, [Keys -> Data]
    last,           \* the call that produced this state and its outcome
    touched,        \* cached keys, most recently accessed first
    read_ahead,     \* BOOLEAN (diskio.c)
    last_pdrv,      \* drive of the last successful disk_read
    last_sector,    \* its start sector
    written,        \* per block, the data of the last successful write to it
    nops            \* calls made so far

vars == <<s_cache, s_hash_table, s_dirty_blocks, s_lru_head, s_lru_tail,
          s_free_head, s_evict_error, dev, last, touched, nops,
          read_ahead, last_pdrv, last_sector, written>>

\* The statics of diskio.c.
GlueVars == <<read_ahead, last_pdrv, last_sector>>

\* The statics of block_cache.c plus the device, as one value the
\* functions below transform.
St == [cache |-> s_cache, hash |-> s_hash_table, dirty_blocks |-> s_dirty_blocks,
       lru_head |-> s_lru_head, lru_tail |-> s_lru_tail, free_head |-> s_free_head,
       evict_error |-> s_evict_error, dev |-> dev]

\* ------------------------------------------------------------ hash_key
\* 16x16 -> 32 bit product as <<high half, low half>>.
Mul16(a, b) ==
    LET x == (a % 256) * b
        y == (a \div 256) * b
        t == x + (y % 256) * 256
    IN  <<(t \div 65536) + (y \div 256), t % 65536>>

\* Low 32 bits of a 32x32 product, operands and result as 16-bit halves.
Mul32(a, b) ==
    LET ll == Mul16(a[2], b[2])
    IN  <<(ll[1] + Mul16(a[1], b[2])[2] + Mul16(a[2], b[1])[2]) % 65536, ll[2]>>

\* value = sector ^ (pdrv << 31), truncated to uint32_t: only bit 0 of
\* pdrv survives the shift (gcc wraps the signed shift).  Sectors of
\* the model are below 2^31, so the exclusive-or is an addition.
hash_value(pdrv, sector) ==
    <<(pdrv % 2) * 32768 + (sector \div 65536), sector % 65536>>

\* (value * 2654435761u) % HASH_SIZE; 2654435761 = 40503 * 2^16 + 31153.
hash_calc(pdrv, sector) ==
    LET p == Mul32(hash_value(pdrv, sector), <<40503, 31153>>)
    IN  ((p[1] % HASH_SIZE) * (65536 % HASH_SIZE) + p[2]) % HASH_SIZE

\* hash_key over the keys of the model, tabulated once.
hash_tab == [k \in AllKeys \cup DevKeys |-> hash_calc(k[1], k[2])]

hash_key(pdrv, sector) == hash_tab[<<pdrv, sector>>]

\* -------------------------------------------------------- LRU functions
lru_remove(st, e) ==
    LET c0 == st.cache
        c1 == IF c0[e].lru_prev # NULL
                THEN [c0 EXCEPT ![c0[e].lru_prev].lru_next = c0[e].lru_next]
                ELSE c0
        c2 == IF c1[e].lru_next # NULL
                THEN [c1 EXCEPT ![c1[e].lru_next].lru_prev = c1[e].lru_prev]
                ELSE c1
        h  == IF st.lru_head = e THEN c2[e].lru_next ELSE st.lru_head
        t  == IF st.lru_tail = e THEN c2[e].lru_prev ELSE st.lru_tail
    IN  [st EXCEPT !.cache = [c2 EXCEPT ![e].lru_prev = NULL, ![e].lru_next = NULL],
                   !.lru_head = h, !.lru_tail = t]

\* Variant: the slot is linked in behind the tail of the list.
lru_insert_back(st, e) ==
    LET c1 == [st.cache EXCEPT ![e].lru_prev = st.lru_tail, ![e].lru_next = NULL]
        c2 == IF st.lru_tail # NULL
                THEN [c1 EXCEPT ![st.lru_tail].lru_next = e]
                ELSE c1
    IN  [st EXCEPT !.cache = c2, !.lru_tail = e,
                   !.lru_head = IF st.lru_head = NULL THEN e ELSE st.lru_head]

lru_insert_front(st, e) ==
    LET c1 == [st.cache EXCEPT ![e].lru_next = st.lru_head, ![e].lru_prev = NULL]
        c2 == IF st.lru_head # NULL
                THEN [c1 EXCEPT ![st.lru_head].lru_prev = e]
                ELSE c1
    IN  [st EXCEPT !.cache = c2, !.lru_head = e,
                   !.lru_tail = IF st.lru_tail = NULL THEN e ELSE st.lru_tail]

\* Variant: a hit does not refresh the slot's recency.
lru_touch_never(st, e) == st

lru_touch(st, e) ==
    IF st.lru_head = e THEN st ELSE lru_insert_front(lru_remove(st, e), e)

\* ------------------------------------------------------- free functions
\* Variant: the slot is handed out but stays the head of the Free List.
free_get_keeps_head(st) ==
    IF st.free_head = NULL
      THEN [e |-> NULL, st |-> st]
      ELSE [e |-> st.free_head, st |-> st]

\* Returns the slot taken\* ------------------------------------------------------- free functions
\* Returns the slot taken (NULL when the list is empty) and the new state.
free_get(st) ==
    IF st.free_head = NULL
      THEN [e |-> NULL, st |-> st]
      ELSE [e |-> st.free_head,
            st |-> [st EXCEPT !.free_head = st.cache[st.free_head].hash_next]]

free_insert(st, e) ==
    [st EXCEPT !.cache = [st.cache EXCEPT ![e].valid = FALSE,
                                          ![e].hash_next = st.free_head],
               !.free_head = e]

\* ------------------------------------------------- hash table functions
RECURSIVE hash_lookup_walk(_, _, _, _)
hash_lookup_walk(st, e, pdrv, sector) ==
    IF e = NULL THEN NULL
    ELSE IF st.cache[e].valid /\ st.cache[e].sector = sector /\ st.cache[e].pdrv = pdrv
      THEN e
      ELSE hash_lookup_walk(st, st.cache[e].hash_next, pdrv, sector)

hash_lookup(st, pdrv, sector) ==
    hash_lookup_walk(st, st.hash[hash_key(pdrv, sector)], pdrv, sector)

\* Variant: the slot is chained but the bucket head is not updated.
hash_insert_nohead(st, e) ==
    LET h == hash_key(st.cache[e].pdrv, st.cache[e].sector)
    IN  [st EXCEPT !.cache = [st.cache EXCEPT ![e].hash_next = st.hash[h]]]

hash_insert(st, e) ==
    LET h == hash_key(st.cache[e].pdrv, st.cache[e].sector)
    IN  [st EXCEPT !.cache = [st.cache EXCEPT ![e].hash_next = st.hash[h]],
                   !.hash = [st.hash EXCEPT ![h] = e]]

\* Variant: unlinking the slot cuts the chain off behind it.
RECURSIVE hash_remove_walk_cuts(_, _, _, _)
hash_remove_walk_cuts(st, e, h, prev) ==
    LET cur == IF prev = NULL THEN st.hash[h] ELSE st.cache[prev].hash_next
    IN  IF cur = NULL THEN st
        ELSE IF cur = e
          THEN LET unl == IF prev = NULL
                            THEN [st EXCEPT !.hash = [st.hash EXCEPT ![h] = NULL]]
                            ELSE [st EXCEPT !.cache = [st.cache EXCEPT ![prev].hash_next = NULL]]
               IN  [unl EXCEPT !.cache = [unl.cache EXCEPT ![e].hash_next = NULL]]
          ELSE hash_remove_walk_cuts(st, e, h, cur)

\* pp is the link being examined: the bucket head when prev = NULL,
\* else prev's hash_next.  Falling off the chain changes nothing.
RECURSIVE hash_remove_walk(_, _, _, _)
hash_remove_walk(st, e, h, prev) ==
    LET cur == IF prev = NULL THEN st.hash[h] ELSE st.cache[prev].hash_next
    IN  IF cur = NULL THEN st
        ELSE IF cur = e
          THEN LET unl == IF prev = NULL
                            THEN [st EXCEPT !.hash = [st.hash EXCEPT ![h] = st.cache[e].hash_next]]
                            ELSE [st EXCEPT !.cache = [st.cache EXCEPT ![prev].hash_next = st.cache[e].hash_next]]
               IN  [unl EXCEPT !.cache = [unl.cache EXCEPT ![e].hash_next = NULL]]
          ELSE hash_remove_walk(st, e, h, cur)

hash_remove(st, e) ==
    hash_remove_walk(st, e, hash_key(st.cache[e].pdrv, st.cache[e].sector), NULL)

\* ------------------------------------------------------ device boundary
\* r is what the driver (sd_disk_write / sd_disk_read) answers for this
\* call; a failed transfer leaves the medium as it was.
disk_write_no_cache(st, pdrv, buff, sector, r) ==
    IF pdrv \in Drives
      THEN [res |-> r,
            st  |-> IF r = RES_OK
                      THEN [st EXCEPT !.dev = [st.dev EXCEPT ![<<pdrv, sector>>] = buff]]
                      ELSE st]
      ELSE [res |-> RES_PARERR, st |-> st]

disk_read_no_cache(st, pdrv, sector, r) ==
    IF pdrv \in Drives
      THEN [res |-> r, buff |-> st.dev[<<pdrv, sector>>]]
      ELSE [res |-> RES_PARERR, buff |-> NoData]

\* One device write as it appears in a call's trace.
WriteCall(st, e, res) ==
    [pdrv |-> st.cache[e].pdrv, sector |-> st.cache[e].sector,
     data |-> st.cache[e].data, res |-> res]

\* ------------------------------------------------------ cache functions
\* Variant: the result of the write-back is recorded but not tested.
evict_entry_unchecked(st, wr) ==
    LET e == st.lru_tail
    IN  IF e = NULL
          THEN [e |-> NULL, st |-> [st EXCEPT !.evict_error = RES_PARERR], writes |-> <<>>]
        ELSE
          LET wb == st.cache[e].valid /\ st.cache[e].dirty
              w  == disk_write_no_cache(st, st.cache[e].pdrv, st.cache[e].data,
                                        st.cache[e].sector, wr)
              s1 == IF wb THEN [w.st EXCEPT !.evict_error = w.res] ELSE st
              tr == IF wb THEN <<WriteCall(st, e, w.res)>> ELSE <<>>
              s2 == lru_remove(hash_remove(s1, e), e)
          IN  [e |-> e,
               st |-> [s2 EXCEPT !.cache = [s2.cache EXCEPT ![e].valid = FALSE,
                                                            ![e].dirty = FALSE]],
               writes |-> tr]

\* Variant: a dirty victim is reclaimed without being written back.
evict_entry_drops_dirty(st, wr) ==
    LET e == st.lru_tail
    IN  IF e = NULL
          THEN [e |-> NULL, st |-> [st EXCEPT !.evict_error = RES_PARERR], writes |-> <<>>]
        ELSE
          LET s2 == lru_remove(hash_remove(st, e), e)
          IN  [e |-> e,
               st |-> [s2 EXCEPT !.cache = [s2.cache EXCEPT ![e].valid = FALSE,
                                                            ![e].dirty = FALSE]],
               writes |-> <<>>]

\* Variant: the victim is written back whenever it is valid, dirty or not.
evict_entry_writes_clean(st, wr) ==
    LET e == st.lru_tail
    IN  IF e = NULL
          THEN [e |-> NULL, st |-> [st EXCEPT !.evict_error = RES_PARERR], writes |-> <<>>]
        ELSE
          LET wb == st.cache[e].valid
              w  == disk_write_no_cache(st, st.cache[e].pdrv, st.cache[e].data,
                                        st.cache[e].sector, wr)
              s1 == IF wb THEN [w.st EXCEPT !.evict_error = w.res] ELSE st
              tr == IF wb THEN <<WriteCall(st, e, w.res)>> ELSE <<>>
          IN  IF wb /\ w.res # RES_OK
                THEN [e |-> NULL, st |-> s1, writes |-> tr]
                ELSE LET s2 == lru_remove(hash_remove(s1, e), e)
                     IN  [e |-> e,
                          st |-> [s2 EXCEPT !.cache = [s2.cache EXCEPT ![e].valid = FALSE,
                                                                       ![e].dirty = FALSE]],
                          writes |-> tr]

\* wr: the driver's answer should the victim need a write-back.
evict_entry(st, wr) ==
    LET e == st.lru_tail
    IN  IF e = NULL
          THEN [e |-> NULL, st |-> [st EXCEPT !.evict_error = RES_PARERR], writes |-> <<>>]
        ELSE
          LET wb == st.cache[e].valid /\ st.cache[e].dirty
              w  == disk_write_no_cache(st, st.cache[e].pdrv, st.cache[e].data,
                                        st.cache[e].sector, wr)
              s1 == IF wb THEN [w.st EXCEPT !.evict_error = w.res] ELSE st
              tr == IF wb THEN <<WriteCall(st, e, w.res)>> ELSE <<>>
          IN  IF wb /\ w.res # RES_OK
                THEN [e |-> NULL, st |-> s1, writes |-> tr]
                ELSE LET s2 == lru_remove(hash_remove(s1, e), e)
                     IN  [e |-> e,
                          st |-> [s2 EXCEPT !.cache = [s2.cache EXCEPT ![e].valid = FALSE,
                                                                       ![e].dirty = FALSE]],
                          writes |-> tr]

ZeroEntry ==
    [sector |-> 0, pdrv |-> 0, dirty |-> FALSE, valid |-> FALSE,
     hash_next |-> NULL, lru_prev |-> NULL, lru_next |-> NULL, data |-> InitData]

RECURSIVE init_loop(_, _)
init_loop(st, i) ==
    IF i >= CACHE_SIZE THEN st
    ELSE init_loop(IF ~st.cache[i].valid THEN free_insert(st, i) ELSE st, i + 1)

\* s_dirty_blocks, s_evict_error and the device are not touched by init.
block_cache_init(st) ==
    init_loop([st EXCEPT !.cache = [i \in Slots |-> ZeroEntry],
                         !.hash = [b \in Buckets |-> NULL],
                         !.lru_head = NULL, !.lru_tail = NULL], 0)

\* A miss obtains its slot from the free list, else by eviction.
obtain_entry(st, wr) ==
    LET f == free_get(st)
    IN  IF f.e # NULL THEN [e |-> f.e, st |-> f.st, writes |-> <<>>]
                      ELSE evict_entry(f.st, wr)

\* Variant: a load without output buffer is not entered in the hash table.
block_cache_read_block_probe_unindexed(st, pdrv, sector, buf, wr, rd) ==
    LET e == hash_lookup(st, pdrv, sector)
    IN  IF e # NULL
          THEN [st |-> lru_touch(st, e), res |-> RES_OK, hit |-> TRUE,
                out |-> IF buf THEN st.cache[e].data ELSE NoData,
                reads |-> 0, writes |-> <<>>]
        ELSE
          LET o == obtain_entry(st, wr)
              r == disk_read_no_cache(o.st, pdrv, sector, rd)
          IN  IF o.e = NULL
                THEN [st |-> o.st, res |-> o.st.evict_error, hit |-> FALSE,
                      out |-> NoData, reads |-> 0, writes |-> o.writes]
              ELSE IF r.res # RES_OK
                THEN [st |-> o.st, res |-> r.res, hit |-> FALSE,
                      out |-> NoData, reads |-> 1, writes |-> o.writes]
              ELSE
                LET s1 == [o.st EXCEPT !.cache = [o.st.cache EXCEPT
                                ![o.e].data = r.buff, ![o.e].sector = sector,
                                ![o.e].pdrv = pdrv, ![o.e].dirty = FALSE,
                                ![o.e].valid = TRUE]]
                IN  [st |-> lru_insert_front(IF buf THEN hash_insert(s1, o.e) ELSE s1, o.e),
                     res |-> RES_OK, hit |-> FALSE,
                     out |-> IF buf THEN r.buff ELSE NoData,
                     reads |-> 1, writes |-> o.writes]

\* buf: out_data # NULL.  wr, rd: the driver's answers for the victim's
\* write-back and for the load.
block_cache_read_block(st, pdrv, sector, buf, wr, rd) ==
    LET e == hash_lookup(st, pdrv, sector)
    IN  IF e # NULL
          THEN [st |-> lru_touch(st, e), res |-> RES_OK, hit |-> TRUE,
                out |-> IF buf THEN st.cache[e].data ELSE NoData,
                reads |-> 0, writes |-> <<>>]
        ELSE
          LET o == obtain_entry(st, wr)
              r == disk_read_no_cache(o.st, pdrv, sector, rd)
          IN  IF o.e = NULL
                THEN [st |-> o.st, res |-> o.st.evict_error, hit |-> FALSE,
                      out |-> NoData, reads |-> 0, writes |-> o.writes]
              ELSE IF r.res # RES_OK
                THEN [st |-> o.st, res |-> r.res, hit |-> FALSE,
                      out |-> NoData, reads |-> 1, writes |-> o.writes]
              ELSE
                LET s1 == [o.st EXCEPT !.cache = [o.st.cache EXCEPT
                                ![o.e].data = r.buff, ![o.e].sector = sector,
                                ![o.e].pdrv = pdrv, ![o.e].dirty = FALSE,
                                ![o.e].valid = TRUE]]
                IN  [st |-> lru_insert_front(hash_insert(s1, o.e), o.e),
                     res |-> RES_OK, hit |-> FALSE,
                     out |-> IF buf THEN r.buff ELSE NoData,
                     reads |-> 1, writes |-> o.writes]

\* Variant: the hit path does not set s_dirty_blocks.
block_cache_write_block_noflag(st, pdrv, sector, in_data, wr) ==
    LET e == hash_lookup(st, pdrv, sector)
    IN  IF e # NULL
          THEN LET s1 == [st EXCEPT !.cache = [st.cache EXCEPT ![e].data = in_data,
                                                               ![e].dirty = TRUE]]
               IN  [st |-> lru_touch(s1, e), res |-> RES_OK, hit |-> TRUE,
                    out |-> NoData, reads |-> 0, writes |-> <<>>]
        ELSE
          LET o == obtain_entry(st, wr)
          IN  IF o.e = NULL
                THEN [st |-> o.st, res |-> o.st.evict_error, hit |-> FALSE,
                      out |-> NoData, reads |-> 0, writes |-> o.writes]
              ELSE
                LET s1 == [o.st EXCEPT !.cache = [o.st.cache EXCEPT
                                ![o.e].data = in_data, ![o.e].sector = sector,
                                ![o.e].pdrv = pdrv, ![o.e].dirty = TRUE,
                                ![o.e].valid = TRUE],
                                       !.dirty_blocks = TRUE]
                IN  [st |-> lru_insert_front(hash_insert(s1, o.e), o.e),
                     res |-> RES_OK, hit |-> FALSE,
                     out |-> NoData, reads |-> 0, writes |-> o.writes]

\* Variant: a hit marks the slot dirty without copying in_data into it.
block_cache_write_block_nocopy(st, pdrv, sector, in_data, wr) ==
    LET e == hash_lookup(st, pdrv, sector)
    IN  IF e # NULL
          THEN LET s1 == [st EXCEPT !.cache = [st.cache EXCEPT ![e].dirty = TRUE],
                                    !.dirty_blocks = TRUE]
               IN  [st |-> lru_touch(s1, e), res |-> RES_OK, hit |-> TRUE,
                    out |-> NoData, reads |-> 0, writes |-> <<>>]
        ELSE
          LET o == obtain_entry(st, wr)
          IN  IF o.e = NULL
                THEN [st |-> o.st, res |-> o.st.evict_error, hit |-> FALSE,
                      out |-> NoData, reads |-> 0, writes |-> o.writes]
              ELSE
                LET s1 == [o.st EXCEPT !.cache = [o.st.cache EXCEPT
                                ![o.e].data = in_data, ![o.e].sector = sector,
                                ![o.e].pdrv = pdrv, ![o.e].dirty = TRUE,
                                ![o.e].valid = TRUE],
                                       !.dirty_blocks = TRUE]
                IN  [st |-> lru_insert_front(hash_insert(s1, o.e), o.e),
                     res |-> RES_OK, hit |-> FALSE,
                     out |-> NoData, reads |-> 0, writes |-> o.writes]

block_cache_write_block(st, pdrv, sector, in_data, wr) ==
    LET e == hash_lookup(st, pdrv, sector)
    IN  IF e # NULL
          THEN LET s1 == [st EXCEPT !.cache = [st.cache EXCEPT ![e].data = in_data,
                                                               ![e].dirty = TRUE],
                                    !.dirty_blocks = TRUE]
               IN  [st |-> lru_touch(s1, e), res |-> RES_OK, hit |-> TRUE,
                    out |-> NoData, reads |-> 0, writes |-> <<>>]
        ELSE
          LET o == obtain_entry(st, wr)
          IN  IF o.e = NULL
                THEN [st |-> o.st, res |-> o.st.evict_error, hit |-> FALSE,
                      out |-> NoData, reads |-> 0, writes |-> o.writes]
              ELSE
                LET s1 == [o.st EXCEPT !.cache = [o.st.cache EXCEPT
                                ![o.e].data = in_data, ![o.e].sector = sector,
                                ![o.e].pdrv = pdrv, ![o.e].dirty = TRUE,
                                ![o.e].valid = TRUE],
                                       !.dirty_blocks = TRUE]
                IN  [st |-> lru_insert_front(hash_insert(s1, o.e), o.e),
                     res |-> RES_OK, hit |-> FALSE,
                     out |-> NoData, reads |-> 0, writes |-> o.writes]

\* Variant: a flush with flush_all = false writes the slot but leaves it
\* marked dirty.
RECURSIVE flush_loop_keeps_dirty(_, _, _, _, _, _, _)
flush_loop_keeps_dirty(st, i, flush_all, invalidate_all, failAt, err, writes) ==
    IF i >= CACHE_SIZE
      THEN [st |-> [st EXCEPT !.dirty_blocks = FALSE], res |-> RES_OK, writes |-> writes]
    ELSE IF st.cache[i].valid /\ st.cache[i].dirty
      THEN LET w  == disk_write_no_cache(st, st.cache[i].pdrv, st.cache[i].data,
                                         st.cache[i].sector,
                                         IF i = failAt THEN err ELSE RES_OK)
               tr == Append(writes, WriteCall(st, i, w.res))
               s1 == [w.st EXCEPT !.cache = [w.st.cache EXCEPT ![i].dirty = FALSE]]
               s2 == IF invalidate_all
                       THEN [s1 EXCEPT !.cache = [s1.cache EXCEPT ![i].valid = FALSE]]
                       ELSE s1
           IN  IF w.res # RES_OK THEN [st |-> st, res |-> w.res, writes |-> tr]
               ELSE IF ~flush_all THEN [st |-> w.st, res |-> RES_OK, writes |-> tr]
               ELSE flush_loop_keeps_dirty(s2, i + 1, flush_all, invalidate_all,
                                           failAt, err, tr)
    ELSE flush_loop_keeps_dirty(
                    IF invalidate_all
                      THEN [st EXCEPT !.cache = [st.cache EXCEPT ![i].valid = FALSE]]
                      ELSE st,
                    i + 1, flush_all, invalidate_all, failAt, err, writes)

\* Variant: the dirty bit is cleared before the result of the write is
\* tested, so a failed write leaves the slot clean.
RECURSIVE flush_loop_clears_first(_, _, _, _, _, _, _)
flush_loop_clears_first(st, i, flush_all, invalidate_all, failAt, err, writes) ==
    IF i >= CACHE_SIZE
      THEN [st |-> [st EXCEPT !.dirty_blocks = FALSE], res |-> RES_OK, writes |-> writes]
    ELSE IF st.cache[i].valid /\ st.cache[i].dirty
      THEN LET w  == disk_write_no_cache(st, st.cache[i].pdrv, st.cache[i].data,
                                         st.cache[i].sector,
                                         IF i = failAt THEN err ELSE RES_OK)
               tr == Append(writes, WriteCall(st, i, w.res))
               s1 == [w.st EXCEPT !.cache = [w.st.cache EXCEPT ![i].dirty = FALSE]]
               s2 == IF invalidate_all
                       THEN [s1 EXCEPT !.cache = [s1.cache EXCEPT ![i].valid = FALSE]]
                       ELSE s1
           IN  IF w.res # RES_OK THEN [st |-> s1, res |-> w.res, writes |-> tr]
               ELSE IF ~flush_all THEN [st |-> s1, res |-> RES_OK, writes |-> tr]
               ELSE flush_loop_clears_first(s2, i + 1, flush_all, invalidate_all,
                                            failAt, err, tr)
    ELSE flush_loop_clears_first(
                    IF invalidate_all
                      THEN [st EXCEPT !.cache = [st.cache EXCEPT ![i].valid = FALSE]]
                      ELSE st,
                    i + 1, flush_all, invalidate_all, failAt, err, writes)

\* Variant: a write failure is skipped over and the scan goes on.
RECURSIVE flush_loop_goes_on(_, _, _, _, _, _, _)
flush_loop_goes_on(st, i, flush_all, invalidate_all, failAt, err, writes) ==
    IF i >= CACHE_SIZE
      THEN [st |-> [st EXCEPT !.dirty_blocks = FALSE], res |-> RES_OK, writes |-> writes]
    ELSE IF st.cache[i].valid /\ st.cache[i].dirty
      THEN LET w  == disk_write_no_cache(st, st.cache[i].pdrv, st.cache[i].data,
                                         st.cache[i].sector,
                                         IF i = failAt THEN err ELSE RES_OK)
               tr == Append(writes, WriteCall(st, i, w.res))
               s1 == [w.st EXCEPT !.cache = [w.st.cache EXCEPT ![i].dirty = FALSE]]
               s2 == IF invalidate_all
                       THEN [s1 EXCEPT !.cache = [s1.cache EXCEPT ![i].valid = FALSE]]
                       ELSE s1
               rest == flush_loop_goes_on(st, i + 1, flush_all, invalidate_all,
                                          failAt, err, tr)
           IN  IF w.res # RES_OK THEN [rest EXCEPT !.res = w.res]
               ELSE IF ~flush_all THEN [st |-> s1, res |-> RES_OK, writes |-> tr]
               ELSE flush_loop_goes_on(s2, i + 1, flush_all, invalidate_all, failAt, err, tr)
    ELSE flush_loop_goes_on(IF invalidate_all
                              THEN [st EXCEPT !.cache = [st.cache EXCEPT ![i].valid = FALSE]]
                              ELSE st,
                            i + 1, flush_all, invalidate_all, failAt, err, writes)

\* Variant: with invalidate_all the slot is marked invalid before its
\* write is attempted, so a failed write leaves it dirty and invalid.
RECURSIVE flush_loop_invalidates_first(_, _, _, _, _, _, _)
flush_loop_invalidates_first(st, i, flush_all, invalidate_all, failAt, err, writes) ==
    IF i >= CACHE_SIZE
      THEN [st |-> [st EXCEPT !.dirty_blocks = FALSE], res |-> RES_OK, writes |-> writes]
    ELSE IF st.cache[i].valid /\ st.cache[i].dirty
      THEN LET w  == disk_write_no_cache(st, st.cache[i].pdrv, st.cache[i].data,
                                         st.cache[i].sector,
                                         IF i = failAt THEN err ELSE RES_OK)
               tr == Append(writes, WriteCall(st, i, w.res))
               s0 == IF invalidate_all
                       THEN [st EXCEPT !.cache = [st.cache EXCEPT ![i].valid = FALSE]]
                       ELSE st
               s1 == [w.st EXCEPT !.cache = [w.st.cache EXCEPT ![i].dirty = FALSE]]
               s2 == IF invalidate_all
                       THEN [s1 EXCEPT !.cache = [s1.cache EXCEPT ![i].valid = FALSE]]
                       ELSE s1
           IN  IF w.res # RES_OK THEN [st |-> s0, res |-> w.res, writes |-> tr]
               ELSE IF ~flush_all THEN [st |-> s1, res |-> RES_OK, writes |-> tr]
               ELSE flush_loop_invalidates_first(s2, i + 1, flush_all, invalidate_all,
                                                 failAt, err, tr)
    ELSE flush_loop_invalidates_first(
                    IF invalidate_all
                      THEN [st EXCEPT !.cache = [st.cache EXCEPT ![i].valid = FALSE]]
                      ELSE st,
                    i + 1, flush_all, invalidate_all, failAt, err, writes)

\* Variant: the scan does not stop after the first slot flushed when
\* flush_all is false.
RECURSIVE flush_loop_nostop(_, _, _, _, _, _, _)
flush_loop_nostop(st, i, flush_all, invalidate_all, failAt, err, writes) ==
    IF i >= CACHE_SIZE
      THEN [st |-> [st EXCEPT !.dirty_blocks = FALSE], res |-> RES_OK, writes |-> writes]
    ELSE IF st.cache[i].valid /\ st.cache[i].dirty
      THEN LET w  == disk_write_no_cache(st, st.cache[i].pdrv, st.cache[i].data,
                                         st.cache[i].sector,
                                         IF i = failAt THEN err ELSE RES_OK)
               tr == Append(writes, WriteCall(st, i, w.res))
               s1 == [w.st EXCEPT !.cache = [w.st.cache EXCEPT ![i].dirty = FALSE]]
               s2 == IF invalidate_all
                       THEN [s1 EXCEPT !.cache = [s1.cache EXCEPT ![i].valid = FALSE]]
                       ELSE s1
           IN  IF w.res # RES_OK THEN [st |-> st, res |-> w.res, writes |-> tr]
               ELSE flush_loop_nostop(s2, i + 1, flush_all, invalidate_all, failAt, err, tr)
    ELSE flush_loop_nostop(IF invalidate_all
                             THEN [st EXCEPT !.cache = [st.cache EXCEPT ![i].valid = FALSE]]
                             ELSE st,
                           i + 1, flush_all, invalidate_all, failAt, err, writes)

\* The scan of block_cache_flush from slot i on.  failAt: the slot whose
\* write the driver fails (NULL: none), err: with which result.
RECURSIVE flush_loop(_, _, _, _, _, _, _)
flush_loop(st, i, flush_all, invalidate_all, failAt, err, writes) ==
    IF i >= CACHE_SIZE
      THEN [st |-> [st EXCEPT !.dirty_blocks = FALSE], res |-> RES_OK, writes |-> writes]
    ELSE IF st.cache[i].valid /\ st.cache[i].dirty
      THEN LET w  == disk_write_no_cache(st, st.cache[i].pdrv, st.cache[i].data,
                                         st.cache[i].sector,
                                         IF i = failAt THEN err ELSE RES_OK)
               tr == Append(writes, WriteCall(st, i, w.res))
               s1 == [w.st EXCEPT !.cache = [w.st.cache EXCEPT ![i].dirty = FALSE]]
               s2 == IF invalidate_all
                       THEN [s1 EXCEPT !.cache = [s1.cache EXCEPT ![i].valid = FALSE]]
                       ELSE s1
           IN  IF w.res # RES_OK THEN [st |-> st, res |-> w.res, writes |-> tr]
               ELSE IF ~flush_all THEN [st |-> s1, res |-> RES_OK, writes |-> tr]
               ELSE flush_loop(s2, i + 1, flush_all, invalidate_all, failAt, err, tr)
    ELSE flush_loop(IF invalidate_all
                      THEN [st EXCEPT !.cache = [st.cache EXCEPT ![i].valid = FALSE]]
                      ELSE st,
                    i + 1, flush_all, invalidate_all, failAt, err, writes)

block_cache_flush(st, flush_all, invalidate_all, failAt, err) ==
    IF st.dirty_blocks = FALSE
      THEN [st |-> st, res |-> RES_OK, writes |-> <<>>]
      ELSE flush_loop(st, 0, flush_all, invalidate_all, failAt, err, <<>>)

\* ------------------------------------------------------------- diskio.c
\* Transfers of count sectors straight to the driver.
Span(pdrv, sector, count) == {<<pdrv, s>> : s \in sector..(sector + count - 1)}

disk_write_sectors(st, pdrv, buff, sector, count, r) ==
    IF pdrv \in Drives
      THEN [res |-> r,
            st  |-> IF r = RES_OK
                      THEN [st EXCEPT !.dev = [k \in DOMAIN st.dev |->
                                IF k \in Span(pdrv, sector, count) THEN buff ELSE st.dev[k]]]
                      ELSE st]
      ELSE [res |-> RES_PARERR, st |-> st]

disk_read_sectors(st, pdrv, sector, count, r) ==
    IF pdrv \in Drives
      THEN [res |-> r, buff |-> [n \in 1..count |-> st.dev[<<pdrv, sector + n - 1>>]]]
      ELSE [res |-> RES_PARERR, buff |-> [n \in 1..count |-> NoData]]

\* What the drivers answer during one call of the glue layer (wr: a
\* victim's write-back, rd: a load or a bypassing transfer, failAt, err:
\* the slot at which a flush fails), and inv, the value flush receives as
\* invalidate_all: diskio.c passes one argument to block_cache_flush, so
\* the second is not determined by the source.
WorkingDevice ==
    {[wr |-> RES_OK, rd |-> RES_OK, failAt |-> NULL, err |-> e, inv |-> b] :
        e \in DevErrors, b \in BOOLEAN}

AnyDevice ==
    WorkingDevice
    \cup {[o EXCEPT !.wr = o.err] : o \in WorkingDevice}
    \cup {[o EXCEPT !.rd = o.err] : o \in WorkingDevice}
    \cup {[o EXCEPT !.failAt = i] : o \in WorkingDevice, i \in Slots}

\* gl: the statics of diskio.c.  out: the sectors returned, in order;
\* probes: keys read ahead; flushes: the flush calls made.
\* c: what the cache answered to a one-sector read.
disk_read_cached(c, gl, pdrv, sector) ==
    [st |-> c.st,
     gl |-> IF c.res = RES_OK
              THEN [read_ahead |-> TRUE, last_pdrv |-> pdrv, last_sector |-> sector]
              ELSE gl,
     res |-> c.res, out |-> <<c.out>>, hit |-> c.hit,
     probes |-> <<>>, flushes |-> <<>>, nwrites |-> Len(c.writes)]

\* f: what the full flush answered before a read of several sectors.
disk_read_bypass(f, gl, pdrv, sector, count, o) ==
    LET d == disk_read_sectors(f.st, pdrv, sector, count, o.rd)
    IN  [st |-> f.st,
         gl |-> IF d.res = RES_OK
                  THEN [read_ahead |-> TRUE, last_pdrv |-> pdrv, last_sector |-> sector]
                  ELSE gl,
         res |-> d.res, out |-> d.buff, hit |-> FALSE,
         probes |-> <<>>, flushes |-> <<[flush_all |-> TRUE]>>,
         nwrites |-> Len(f.writes)]

disk_read(st, gl, pdrv, sector, count, o) ==
    IF count = 1
      THEN disk_read_cached(block_cache_read_block(st, pdrv, sector, TRUE, o.wr, o.rd),
                            gl, pdrv, sector)
      ELSE disk_read_bypass(block_cache_flush(st, TRUE, o.inv, o.failAt, o.err),
                            gl, pdrv, sector, count, o)

\* c: what the cache answered to a one-sector write.
disk_write_cached(c, gl) ==
    [st |-> c.st, gl |-> gl, res |-> c.res, out |-> <<>>, hit |-> c.hit,
     probes |-> <<>>, flushes |-> <<>>, nwrites |-> Len(c.writes)]

\* f: what the full flush answered before a write of several sectors.
disk_write_bypass(f, gl, pdrv, buff, sector, count, o) ==
    LET d == disk_write_sectors(f.st, pdrv, buff, sector, count, o.rd)
    IN  [st |-> d.st, gl |-> gl, res |-> d.res, out |-> <<>>, hit |-> FALSE,
         probes |-> <<>>, flushes |-> <<[flush_all |-> TRUE]>>,
         nwrites |-> Len(f.writes)]

disk_write(st, gl, pdrv, buff, sector, count, o) ==
    IF count = 1
      THEN disk_write_cached(block_cache_write_block(st, pdrv, sector, buff, o.wr), gl)
      ELSE disk_write_bypass(block_cache_flush(st, TRUE, o.inv, o.failAt, o.err),
                             gl, pdrv, buff, sector, count, o)

\* c: what the cache answered to the probe of the block after the last
\* one read; res: its result, which disk_task drops.
disk_task_probe(c, gl, armed) ==
    [st |-> c.st, gl |-> [gl EXCEPT !.read_ahead = armed],
     res |-> c.res, out |-> <<>>, hit |-> c.hit,
     probes |-> <<<<gl.last_pdrv, gl.last_sector + 1>>>>,
     flushes |-> <<>>, nwrites |-> Len(c.writes)]

\* f: what the one-block flush answered; res: its result, also dropped.
disk_task_flush(f, gl) ==
    [st |-> f.st, gl |-> gl, res |-> f.res, out |-> <<>>, hit |-> FALSE,
     probes |-> <<>>, flushes |-> <<[flush_all |-> FALSE]>>,
     nwrites |-> Len(f.writes)]

\* Variant: read_ahead stays set after the probe.
disk_task_stays_armed(st, gl, o) ==
    IF gl.read_ahead
      THEN disk_task_probe(block_cache_read_block(st, gl.last_pdrv, gl.last_sector + 1,
                                                  FALSE, o.wr, o.rd),
                           gl, TRUE)
      ELSE disk_task_flush(block_cache_flush(st, FALSE, o.inv, o.failAt, o.err), gl)

disk_task(st, gl, o) ==
    IF gl.read_ahead
      THEN disk_task_probe(block_cache_read_block(st, gl.last_pdrv, gl.last_sector + 1,
                                                  FALSE, o.wr, o.rd),
                           gl, FALSE)
      ELSE disk_task_flush(block_cache_flush(st, FALSE, o.inv, o.failAt, o.err), gl)

\* disk_ioctl (and disk_initialize): a full flush, then the driver.
\* f: what the flush answered.
disk_ioctl_flushed(f, gl, o) ==
    [st |-> f.st, gl |-> gl, res |-> o.rd, out |-> <<>>, hit |-> FALSE,
     probes |-> <<>>, flushes |-> <<[flush_all |-> TRUE]>>,
     nwrites |-> Len(f.writes)]

disk_ioctl(st, gl, o) ==
    disk_ioctl_flushed(block_cache_flush(st, TRUE, o.inv, o.failAt, o.err), gl, o)

\* ---------------------------------------------------------------- actions
Install(st) ==
    /\ s_cache' = st.cache
    /\ s_hash_table' = st.hash
    /\ s_dirty_blocks' = st.dirty_blocks
    /\ s_lru_head' = st.lru_head
    /\ s_lru_tail' = st.lru_tail
    /\ s_free_head' = st.free_head
    /\ s_evict_error' = st.evict_error
    /\ dev' = st.dev

\* What is recorded of a call: the function, its arguments, its result,
\* whether the lookup hit, and how many device writes it issued.
NoCall ==
    [op |-> "init", pdrv |-> 0, sector |-> 0, buf |-> FALSE,
     flush_all |-> FALSE, invalidate_all |-> FALSE,
     res |-> RES_OK, hit |-> FALSE, nwrites |-> 0]

NoKey == <<>>

\* The access history of the keys still cached in st: key k (when the call
\* accessed one successfully) becomes the most recent, keys no longer
\* found by lookup are forgotten.
Touch(hist, st, k) ==
    LET older == SelectSeq(hist, LAMBDA x : x # k)
        all   == IF k = NoKey THEN hist ELSE <<k>> \o older
    IN  SelectSeq(all, LAMBDA x : hash_lookup(st, x[1], x[2]) # NULL)

\* The statics as initialised at their definitions (before init runs).
Boot ==
    [cache |-> [i \in Slots |-> ZeroEntry], hash |-> [b \in Buckets |-> NULL],
     dirty_blocks |-> TRUE, lru_head |-> NULL, lru_tail |-> NULL,
     free_head |-> NULL, evict_error |-> RES_OK,
     dev |-> [k \in DevKeys |-> InitData]]

\* The program after block_cache_init().
Init ==
    LET st == block_cache_init(Boot)
    IN  /\ s_cache = st.cache
        /\ s_hash_table = st.hash
        /\ s_dirty_blocks = st.dirty_blocks
        /\ s_lru_head = st.lru_head
        /\ s_lru_tail = st.lru_tail
        /\ s_free_head = st.free_head
        /\ s_evict_error = st.evict_error
        /\ dev = st.dev
        /\ last = NoCall
        /\ touched = <<>>
        /\ nops = 0
        /\ read_ahead = FALSE
        /\ last_pdrv = 0
        /\ last_sector = 0
        /\ written = [k \in DevKeys |-> InitData]

\* Driver answers for the (at most one) write-back and the load of one
\* read_block call; the load is not reached when the write-back fails.
ReadOracles == {o \in DevResults \X DevResults : o[1] = RES_OK \/ o[2] = RES_OK}

ReadBlock ==
    /\ nops < MaxOps
    /\ nops' = nops + 1
    /\ \E <<pdrv, sector>> \in Keys, buf \in BOOLEAN, o \in ReadOracles :
        LET r == block_cache_read_block(St, pdrv, sector, buf, o[1], o[2])
        IN  /\ Install(r.st)
            /\ last' = [NoCall EXCEPT !.op = "read", !.pdrv = pdrv, !.sector = sector,
                           !.buf = buf, !.res = r.res, !.hit = r.hit,
                           !.nwrites = Len(r.writes)]
            /\ touched' = Touch(touched, r.st,
                                IF r.res = RES_OK THEN <<pdrv, sector>> ELSE NoKey)
            /\ UNCHANGED <<GlueVars, written>>

WriteBlock ==
    /\ nops < MaxOps
    /\ nops' = nops + 1
    /\ \E <<pdrv, sector>> \in Keys, in_data \in WriteData, wr \in DevResults :
        LET r == block_cache_write_block(St, pdrv, sector, in_data, wr)
        IN  /\ Install(r.st)
            /\ last' = [NoCall EXCEPT !.op = "write", !.pdrv = pdrv, !.sector = sector,
                           !.res = r.res, !.hit = r.hit, !.nwrites = Len(r.writes)]
            /\ touched' = Touch(touched, r.st,
                                IF r.res = RES_OK THEN <<pdrv, sector>> ELSE NoKey)
            /\ written' = IF r.res = RES_OK /\ <<pdrv, sector>> \in DevKeys
                             THEN [written EXCEPT ![<<pdrv, sector>>] = in_data]
                             ELSE written
            /\ UNCHANGED GlueVars

Flush ==
    /\ nops < MaxOps
    /\ nops' = nops + 1
    /\ \E flush_all \in BOOLEAN, invalidate_all \in BOOLEAN,
          failAt \in Slots \cup {NULL}, err \in DevErrors :
        LET r == block_cache_flush(St, flush_all, invalidate_all, failAt, err)
        IN  /\ Install(r.st)
            /\ last' = [NoCall EXCEPT !.op = "flush", !.flush_all = flush_all,
                           !.invalidate_all = invalidate_all, !.res = r.res,
                           !.nwrites = Len(r.writes)]
            /\ touched' = Touch(touched, r.st, NoKey)
            /\ UNCHANGED <<GlueVars, written>>

Next == ReadBlock \/ WriteBlock \/ Flush

Spec == Init /\ [][Next]_vars

\* The callers also address the drive that has no driver.
ReadBlockAnyDrive ==
    /\ nops < MaxOps
    /\ nops' = nops + 1
    /\ \E <<pdrv, sector>> \in AllKeys, buf \in BOOLEAN, o \in ReadOracles :
        LET r == block_cache_read_block(St, pdrv, sector, buf, o[1], o[2])
        IN  /\ Install(r.st)
            /\ last' = [NoCall EXCEPT !.op = "read", !.pdrv = pdrv, !.sector = sector,
                           !.buf = buf, !.res = r.res, !.hit = r.hit,
                           !.nwrites = Len(r.writes)]
            /\ touched' = Touch(touched, r.st,
                                IF r.res = RES_OK THEN <<pdrv, sector>> ELSE NoKey)
            /\ UNCHANGED <<GlueVars, written>>

WriteBlockAnyDrive ==
    /\ nops < MaxOps
    /\ nops' = nops + 1
    /\ \E <<pdrv, sector>> \in AllKeys, in_data \in WriteData, wr \in DevResults :
        LET r == block_cache_write_block(St, pdrv, sector, in_data, wr)
        IN  /\ Install(r.st)
            /\ last' = [NoCall EXCEPT !.op = "write", !.pdrv = pdrv, !.sector = sector,
                           !.res = r.res, !.hit = r.hit, !.nwrites = Len(r.writes)]
            /\ touched' = Touch(touched, r.st,
                                IF r.res = RES_OK THEN <<pdrv, sector>> ELSE NoKey)
            /\ written' = IF r.res = RES_OK /\ <<pdrv, sector>> \in DevKeys
                             THEN [written EXCEPT ![<<pdrv, sector>>] = in_data]
                             ELSE written
            /\ UNCHANGED GlueVars

NextAnyDrive == ReadBlockAnyDrive \/ WriteBlockAnyDrive \/ Flush

SpecAnyDrive == Init /\ [][NextAnyDrive]_vars

\* Callers that write differing payloads to one of the blocks.
VersionsOf(pdrv, sector) ==
    IF <<pdrv, sector>> = <<DEV_SD, 0>> THEN WriteVersions ELSE WriteData

WriteBlockVersions ==
    /\ nops < MaxOps
    /\ nops' = nops + 1
    /\ \E <<pdrv, sector>> \in Keys, wr \in DevResults :
       \E in_data \in VersionsOf(pdrv, sector) :
        LET r == block_cache_write_block(St, pdrv, sector, in_data, wr)
        IN  /\ Install(r.st)
            /\ last' = [NoCall EXCEPT !.op = "write", !.pdrv = pdrv, !.sector = sector,
                           !.res = r.res, !.hit = r.hit, !.nwrites = Len(r.writes)]
            /\ touched' = Touch(touched, r.st,
                                IF r.res = RES_OK THEN <<pdrv, sector>> ELSE NoKey)
            /\ written' = IF r.res = RES_OK
                             THEN [written EXCEPT ![<<pdrv, sector>>] = in_data]
                             ELSE written
            /\ UNCHANGED GlueVars

NextVersions == ReadBlock \/ WriteBlockVersions \/ Flush

SpecVersions == Init /\ [][NextVersions]_vars

\* ------------------------------------------------ the glue layer's calls
\* The statics of diskio.c as one value.
Gl == [read_ahead |-> read_ahead, last_pdrv |-> last_pdrv, last_sector |-> last_sector]

InstallGlue(gl) ==
    /\ read_ahead' = gl.read_ahead
    /\ last_pdrv' = gl.last_pdrv
    /\ last_sector' = gl.last_sector

\* The filesystem addresses the SD card, one sector or two at a time.
GlueSectors == 0..(CACHE_SIZE - 1)
Counts == {1, 2}

\* The answers that matter to a call that reaches no flush, to one that
\* flushes and then transfers, and to one that only flushes.
CacheAnswers(devices) == {o \in devices : o.failAt = NULL /\ ~o.inv}
BypassAnswers(devices) == {o \in devices : o.wr = RES_OK}
FlushAnswers(devices) == {o \in devices : o.wr = RES_OK /\ o.rd = RES_OK}
AnswersFor(devices, bypassing) ==
    IF bypassing THEN BypassAnswers(devices) ELSE CacheAnswers(devices)

GlueRead(devices) ==
    /\ nops < MaxGlueOps
    /\ nops' = nops + 1
    /\ \E sector \in GlueSectors, count \in Counts :
       \E o \in AnswersFor(devices, count > 1) :
        \E r \in {disk_read(St, Gl, DEV_SD, sector, count, o)} :
            /\ Install(r.st)
            /\ InstallGlue(r.gl)
            /\ last' = [NoCall EXCEPT !.op = IF count = 1 THEN "disk_read" ELSE "disk_read_n",
                           !.pdrv = DEV_SD, !.sector = sector, !.buf = TRUE,
                           !.res = r.res, !.hit = r.hit, !.nwrites = r.nwrites]
            /\ touched' = Touch(touched, r.st,
                                IF count = 1 /\ r.res = RES_OK
                                  THEN <<DEV_SD, sector>> ELSE NoKey)
            /\ UNCHANGED written

GlueWrite(devices, payloads) ==
    /\ nops < MaxGlueOps
    /\ nops' = nops + 1
    /\ \E sector \in GlueSectors, count \in Counts, buff \in payloads :
       \E o \in AnswersFor(devices, count > 1) :
        \E r \in {disk_write(St, Gl, DEV_SD, buff, sector, count, o)} :
            /\ Install(r.st)
            /\ InstallGlue(r.gl)
            /\ last' = [NoCall EXCEPT !.op = IF count = 1 THEN "disk_write" ELSE "disk_write_n",
                           !.pdrv = DEV_SD, !.sector = sector,
                           !.res = r.res, !.hit = r.hit, !.nwrites = r.nwrites]
            /\ touched' = Touch(touched, r.st,
                                IF count = 1 /\ r.res = RES_OK
                                  THEN <<DEV_SD, sector>> ELSE NoKey)
            /\ written' = IF r.res = RES_OK
                             THEN [k \in DOMAIN written |->
                                     IF k \in Span(DEV_SD, sector, count)
                                       THEN buff ELSE written[k]]
                             ELSE written

GlueTask(devices) ==
    /\ nops < MaxGlueOps
    /\ nops' = nops + 1
    /\ \E o \in IF read_ahead THEN CacheAnswers(devices) ELSE FlushAnswers(devices) :
        \E r \in {disk_task(St, Gl, o)} :
            /\ Install(r.st)
            /\ InstallGlue(r.gl)
            /\ last' = [NoCall EXCEPT !.op = IF r.probes # <<>> THEN "task_probe" ELSE "task_flush",
                           !.pdrv = last_pdrv, !.sector = last_sector + 1,
                           !.res = r.res, !.hit = r.hit, !.nwrites = r.nwrites]
            /\ touched' = Touch(touched, r.st,
                                IF r.probes # <<>> /\ r.res = RES_OK
                                  THEN r.probes[1] ELSE NoKey)
            /\ UNCHANGED written

GlueIoctl(devices) ==
    /\ nops < MaxGlueOps
    /\ nops' = nops + 1
    /\ \E o \in FlushAnswers(devices) :
        \E r \in {disk_ioctl(St, Gl, o)} :
            /\ Install(r.st)
            /\ InstallGlue(r.gl)
            /\ last' = [NoCall EXCEPT !.op = "disk_ioctl", !.flush_all = TRUE,
                           !.invalidate_all = o.inv,
                           !.res = r.res, !.nwrites = r.nwrites]
            /\ touched' = Touch(touched, r.st, NoKey)
            /\ UNCHANGED written

\* The glue layer over drivers that may fail.
DiskRead == GlueRead(AnyDevice)
DiskWrite == GlueWrite(AnyDevice, WriteData)
DiskTask == GlueTask(AnyDevice)
DiskIoctl == GlueIoctl(AnyDevice)

NextGlue == DiskRead \/ DiskWrite \/ DiskTask \/ DiskIoctl

SpecGlue == Init /\ [][NextGlue]_vars

\* The glue layer over a working device.
DiskReadWorking == GlueRead(WorkingDevice)
DiskWriteWorking == GlueWrite(WorkingDevice, WriteVersions)
DiskTaskWorking == GlueTask(WorkingDevice)
DiskIoctlWorking == GlueIoctl(WorkingDevice)

NextGlueWorking ==
    DiskReadWorking \/ DiskWriteWorking \/ DiskTaskWorking \/ DiskIoctlWorking

SpecGlueWorking == Init /\ [][NextGlueWorking]_vars

\* ------------------------------------------------- views of the lists
\* Slots reached from e through the link field f, at most n of them.
RECURSIVE Walk(_, _, _, _)
Walk(st, e, f, n) ==
    IF e = NULL \/ n = 0 THEN <<>>
    ELSE <<e>> \o Walk(st, st.cache[e][f], f, n - 1)

Range(q) == {q[n] : n \in DOMAIN q}

LruSeq(st) == Walk(st, st.lru_head, "lru_next", CACHE_SIZE + 1)
FreeSeq(st) == Walk(st, st.free_head, "hash_next", CACHE_SIZE + 1)
Chain(st, b) == Walk(st, st.hash[b], "hash_next", CACHE_SIZE + 1)

\* Buckets whose chain holds slot i.
BucketsOf(st, i) == {b \in Buckets : i \in Range(Chain(st, b))}
\* Positions of slot i in the LRU list.
LruPositions(st, i) == {n \in DOMAIN LruSeq(st) : LruSeq(st)[n] = i}

KeyOf(st, i) == <<st.cache[i].pdrv, st.cache[i].sector>>
ValidSlots(st) == {i \in Slots : st.cache[i].valid}
DirtySlots(st) == {i \in Slots : st.cache[i].valid /\ st.cache[i].dirty}
CachedKeys(st) == {KeyOf(st, i) : i \in ValidSlots(st)}

\* Everything of the cache except s_evict_error is the same in a and b.
SameCache(a, b) == [a EXCEPT !.evict_error = RES_OK] = [b EXCEPT !.evict_error = RES_OK]

TypeOK ==
    /\ s_lru_head \in Slots \cup {NULL}
    /\ s_lru_tail \in Slots \cup {NULL}
    /\ s_free_head \in Slots \cup {NULL}
    /\ \A i \in Slots : s_cache[i].data \in Data

\* ------------------------------------------------------------------ C1
\* C1: in every state reached by read_block, write_block and flush calls
\* with arbitrary device failures, no two slots with valid = true hold
\* the same (drive, block) key.
C1_OneValidSlotPerKey ==
    \A i, j \in ValidSlots(St) : KeyOf(St, i) = KeyOf(St, j) => i = j

\* A key that was cached, invalidated by flush and cached again: two
\* linked slots carry it, one of them valid.
C1_Witness ==
    \E i, j \in Slots :
        /\ i # j
        /\ KeyOf(St, i) = KeyOf(St, j)
        /\ s_cache[i].valid /\ ~s_cache[j].valid
        /\ LruPositions(St, i) # {} /\ LruPositions(St, j) # {}

\* ------------------------------------------------------------------ C2
\* C2: every slot is either free (valid = false, on the Free List, in no
\* hash chain, not in the LRU List) or cached (valid = true, in exactly
\* one hash chain and at exactly one LRU position).
SlotFree(st, i) ==
    /\ ~st.cache[i].valid
    /\ i \in Range(FreeSeq(st))
    /\ BucketsOf(st, i) = {}
    /\ LruPositions(st, i) = {}

SlotCached(st, i) ==
    /\ st.cache[i].valid
    /\ Cardinality(BucketsOf(st, i)) = 1
    /\ Cardinality(LruPositions(st, i)) = 1

C2_FreeOrCached ==
    \A i \in Slots : SlotFree(St, i) \/ SlotCached(St, i)

\* ------------------------------------------------------------------ C3
\* C3: the slots linked in the LRU List are exactly the slots with
\* valid = true, so a non-empty list has a valid tail.
C3_LruIsValidSet ==
    /\ Range(LruSeq(St)) = ValidSlots(St)
    /\ s_lru_tail # NULL => s_cache[s_lru_tail].valid

\* ------------------------------------------------------------------ C4
\* C4: when write_block(d, b, data) returns success, a read_block(d, b, out)
\* made next returns success with out = data and issues no device read.
C4_ReadAfterWrite ==
    \A <<pdrv, sector>> \in Keys, in_data \in WriteData, wr \in DevResults :
        LET w == block_cache_write_block(St, pdrv, sector, in_data, wr)
        IN  w.res = RES_OK =>
              \A o \in ReadOracles :
                LET r == block_cache_read_block(w.st, pdrv, sector, TRUE, o[1], o[2])
                IN  r.res = RES_OK /\ r.out = in_data /\ r.reads = 0

\* A buffered read that hit a block whose content exists only in the
\* cache (dirty, and different from what the device holds).
C4_Witness ==
    /\ last.op = "read" /\ last.buf /\ last.hit /\ last.res = RES_OK
    /\ \E i \in DirtySlots(St) :
        /\ KeyOf(St, i) = <<last.pdrv, last.sector>>
        /\ s_cache[i].data # dev[KeyOf(St, i)]

\* ------------------------------------------------------------------ C5
\* C5: a read_block or write_block that misses with the Free List empty
\* and whose write-back of the dirty LRU tail fails returns that device
\* error and changes nothing: the victim stays valid, dirty, indexed and
\* in place with its payload, and the requested key is not inserted.
EvictFailCase(st, pdrv, sector, wr) ==
    /\ hash_lookup(st, pdrv, sector) = NULL
    /\ st.free_head = NULL
    /\ st.lru_tail # NULL
    /\ st.lru_tail \in DirtySlots(st)
    /\ wr # RES_OK

EvictFailPost(st, r, pdrv, sector, wr) ==
    /\ r.res = wr
    /\ SameCache(r.st, st)
    /\ hash_lookup(r.st, pdrv, sector) = NULL
    /\ r.reads = 0

C5_FailedEvictionChangesNothing ==
    \A <<pdrv, sector>> \in Keys, wr \in DevErrors :
        EvictFailCase(St, pdrv, sector, wr) =>
            /\ \A in_data \in WriteData :
                 EvictFailPost(St, block_cache_write_block(St, pdrv, sector, in_data, wr),
                               pdrv, sector, wr)
            /\ \A buf \in BOOLEAN :
                 EvictFailPost(St, block_cache_read_block(St, pdrv, sector, buf, wr, RES_OK),
                               pdrv, sector, wr)

\* A miss has just failed on the write-back of the dirty tail.
C5_Witness ==
    /\ last.op \in {"read", "write"} /\ ~last.hit
    /\ last.res \in DevErrors /\ last.nwrites = 1
    /\ s_free_head = NULL /\ s_lru_tail \in DirtySlots(St)
    /\ s_evict_error = last.res

\* ------------------------------------------------------------------ C6
\* C6: when read_block misses and the device read fails, the call returns
\* that failure, the slot it obtained is in no hash chain and not in the
\* LRU List, and the slot is still free: on the Free List, available to
\* a later miss.
C6_FailedLoadKeepsSlotFree ==
    \A <<pdrv, sector>> \in Keys, buf \in BOOLEAN, rd \in DevErrors :
        LET o == obtain_entry(St, RES_OK)
            r == block_cache_read_block(St, pdrv, sector, buf, RES_OK, rd)
        IN  (hash_lookup(St, pdrv, sector) = NULL /\ o.e # NULL) =>
              /\ r.res = rd
              /\ BucketsOf(r.st, o.e) = {}
              /\ LruPositions(r.st, o.e) = {}
              /\ o.e \in Range(FreeSeq(r.st))

\* ------------------------------------------------------------------ C7
\* C7: a read_block, write_block or flush call that returns an error
\* leaves every slot's hash-chain membership and LRU membership as they
\* were before the call.
SameMembership(a, b) ==
    /\ \A i \in Slots : BucketsOf(a, i) = BucketsOf(b, i)
    /\ Range(LruSeq(a)) = Range(LruSeq(b))

C7_ErrorKeepsMembership ==
    /\ \A <<pdrv, sector>> \in Keys, buf \in BOOLEAN, o \in ReadOracles :
         LET r == block_cache_read_block(St, pdrv, sector, buf, o[1], o[2])
         IN  r.res # RES_OK => SameMembership(r.st, St)
    /\ \A <<pdrv, sector>> \in Keys, in_data \in WriteData, wr \in DevResults :
         LET r == block_cache_write_block(St, pdrv, sector, in_data, wr)
         IN  r.res # RES_OK => SameMembership(r.st, St)
    /\ \A flush_all \in BOOLEAN, invalidate_all \in BOOLEAN,
          failAt \in Slots \cup {NULL}, err \in DevErrors :
         LET r == block_cache_flush(St, flush_all, invalidate_all, failAt, err)
         IN  r.res # RES_OK => SameMembership(r.st, St)

\* ------------------------------------------------------------------ C8
\* C8: with CACHE_SIZE distinct keys cached, a successful access to a key
\* that is not cached evicts exactly the key accessed longest ago: that
\* key's slot is the one reused, its payload is written to the device at
\* its key exactly once if it was dirty and not at all if it was clean,
\* and a later read of the evicted key is a miss.
CacheFull(st) == ValidSlots(st) = Slots

EvictionPost(st, hist, r, k) ==
    LET old == hist[Len(hist)]
        v   == hash_lookup(st, old[1], old[2])
    IN  /\ Len(hist) = CACHE_SIZE
        /\ v # NULL
        /\ CachedKeys(r.st) = (CachedKeys(st) \ {old}) \cup {k}
        /\ KeyOf(r.st, v) = k /\ r.st.cache[v].valid
        /\ r.writes = IF st.cache[v].dirty THEN <<WriteCall(st, v, RES_OK)>> ELSE <<>>
        /\ hash_lookup(r.st, old[1], old[2]) = NULL
        /\ ~block_cache_read_block(r.st, old[1], old[2], TRUE, RES_OK, RES_OK).hit

C8_EvictsLeastRecentlyTouched ==
    \A <<pdrv, sector>> \in Keys :
        (CacheFull(St) /\ hash_lookup(St, pdrv, sector) = NULL) =>
            /\ \A in_data \in WriteData, wr \in DevResults :
                 LET r == block_cache_write_block(St, pdrv, sector, in_data, wr)
                 IN  r.res = RES_OK => EvictionPost(St, touched, r, <<pdrv, sector>>)
            /\ \A buf \in BOOLEAN, o \in ReadOracles :
                 LET r == block_cache_read_block(St, pdrv, sector, buf, o[1], o[2])
                 IN  r.res = RES_OK => EvictionPost(St, touched, r, <<pdrv, sector>>)

\* A miss on a full cache has just succeeded after writing back its victim.
C8_Witness ==
    /\ last.op \in {"read", "write"} /\ ~last.hit /\ last.res = RES_OK
    /\ last.nwrites = 1
    /\ CacheFull(St)
    /\ touched[1] = <<last.pdrv, last.sector>>

\* ------------------------------------------------------------------ C9
\* C9: a successful flush(true, true) issues one device write per slot
\* that was dirty, leaves no slot dirty and every slot invalid, so every
\* key cached before misses afterwards; also when no slot was dirty.
C9_FlushAllInvalidatesAll ==
    \A failAt \in Slots \cup {NULL}, err \in DevErrors :
        LET r == block_cache_flush(St, TRUE, TRUE, failAt, err)
        IN  r.res = RES_OK =>
              /\ Len(r.writes) = Cardinality(DirtySlots(St))
              /\ \A i \in Slots : ~r.st.cache[i].dirty /\ ~r.st.cache[i].valid
              /\ \A k \in CachedKeys(St) : hash_lookup(r.st, k[1], k[2]) = NULL

\* ----------------------------------------------------------------- C10
\* C10: on a working device flush(false, false) with a dirty slot issues
\* exactly one device write, for the dirty slot of lowest pool index, and
\* clears only that slot's dirty bit; with no dirty slot it issues none;
\* with exactly one dirty slot a second call issues none.
LowestDirty(st) == CHOOSE i \in DirtySlots(st) : \A j \in DirtySlots(st) : i <= j

C10_IncrementalFlush ==
    LET r == block_cache_flush(St, FALSE, FALSE, NULL, RES_ERROR)
    IN  /\ r.res = RES_OK
        /\ IF DirtySlots(St) = {}
             THEN r.writes = <<>> /\ r.st.cache = St.cache
             ELSE LET m == LowestDirty(St)
                  IN  /\ r.writes = <<WriteCall(St, m, RES_OK)>>
                      /\ r.st.cache = [St.cache EXCEPT ![m].dirty = FALSE]
                      /\ Cardinality(DirtySlots(St)) = 1 =>
                           block_cache_flush(r.st, FALSE, FALSE, NULL, RES_ERROR).writes = <<>>

\* An incremental flush has just written one slot and left another dirty.
C10_Witness ==
    /\ last.op = "flush" /\ ~last.flush_all /\ ~last.invalidate_all
    /\ last.res = RES_OK /\ last.nwrites = 1
    /\ \E i \in DirtySlots(St), j \in ValidSlots(St) : j < i /\ ~s_cache[j].dirty

\* ----------------------------------------------------------------- C11
\* The slots a flush scan visits: none when s_dirty_blocks is false, else
\* slot 0 up to the slot at which the scan returns (the first dirty slot
\* whose write fails or, when flush_all is false, the first dirty slot),
\* or all slots when it returns at none.
FlushStops(st, fa, failAt) ==
    {i \in DirtySlots(st) : i = failAt \/ ~fa}

FlushVisited(st, fa, failAt) ==
    IF ~st.dirty_blocks THEN {}
    ELSE IF FlushStops(st, fa, failAt) = {} THEN Slots
    ELSE {i \in Slots : \A j \in FlushStops(st, fa, failAt) : i <= j}

\* C11: when flush is called with invalidate_all = true, every slot the
\* scan visits has valid = false on return, whether it was clean, was
\* flushed successfully, or its device write failed.
C11_InvalidateAllVisited ==
    \A flush_all \in BOOLEAN, failAt \in Slots \cup {NULL}, err \in DevErrors :
        LET r == block_cache_flush(St, flush_all, TRUE, failAt, err)
        IN  \A i \in FlushVisited(St, flush_all, failAt) : ~r.st.cache[i].valid

\* ----------------------------------------------------------------- C12
\* C12: when the device write for slot i fails during flush, flush returns
\* that error at once: slot i keeps valid, dirty and its payload, the
\* failed write is the last device write issued (every write is for a
\* dirty slot of index <= i), and the slots after i are unchanged.
C12_FlushAbortsAtFailure ==
    \A flush_all \in BOOLEAN, invalidate_all \in BOOLEAN,
       failAt \in Slots, err \in DevErrors :
        LET r == block_cache_flush(St, flush_all, invalidate_all, failAt, err)
        IN  r.res # RES_OK =>
              /\ r.res = err
              /\ failAt \in DirtySlots(St)
              /\ r.st.cache[failAt] = St.cache[failAt]
              /\ r.writes[Len(r.writes)] = WriteCall(St, failAt, err)
              /\ \A n \in DOMAIN r.writes :
                   \E j \in DirtySlots(St) :
                      /\ j <= failAt
                      /\ r.writes[n] = WriteCall(St, j, IF j = failAt THEN err ELSE RES_OK)
              /\ \A j \in Slots : j > failAt => r.st.cache[j] = St.cache[j]
              /\ r.st.dirty_blocks

\* A flush has just failed on its first write, at slot 0, with every
\* slot dirty: the slots after it are still dirty and valid.
C12_Witness ==
    /\ last.op = "flush" /\ last.res \in DevErrors /\ last.nwrites = 1
    /\ DirtySlots(St) = Slots

\* ----------------------------------------------------------------- C13
\* C13: in every reachable state a slot with dirty = true has valid = true.
C13_DirtyImpliesValid ==
    \A i \in Slots : s_cache[i].dirty => s_cache[i].valid

\* A flush with invalidate_all has just written back and invalidated a
\* dirty slot, which is still linked in the LRU List.
C13_Witness ==
    /\ last.op = "flush" /\ last.invalidate_all /\ last.flush_all
    /\ last.res = RES_OK /\ last.nwrites >= 1
    /\ \E i \in Range(LruSeq(St)) :
         ~s_cache[i].valid /\ s_cache[i].data \in WriteData

\* ----------------------------------------------------------------- C14
\* The state the claim describes for a fresh cache: every slot free, the
\* Free List holding each slot once and ending in NULL, every bucket
\* empty, the LRU List empty.
FreshCache(st) ==
    /\ \A i \in Slots : ~st.cache[i].valid /\ ~st.cache[i].dirty
    /\ Len(FreeSeq(st)) = CACHE_SIZE
    /\ Range(FreeSeq(st)) = Slots
    /\ \A b \in Buckets : st.hash[b] = NULL
    /\ st.lru_head = NULL /\ st.lru_tail = NULL

\* C14: init is idempotent: calling init again, immediately after init
\* or after any sequence of operations, yields every slot free, the Free
\* List containing each slot exactly once and ending in a null link,
\* every hash bucket empty and the LRU List empty.
C14_InitIdempotent ==
    FreshCache(block_cache_init(St))

C16_WriteBlockDeviceTraffic ==
    \A <<pdrv, sector>> \in Keys, in_data \in WriteData, wr \in DevResults :
        LET r == block_cache_write_block(St, pdrv, sector, in_data, wr)
            e == hash_lookup(St, pdrv, sector)
        IN  /\ r.reads = 0
            /\ Len(r.writes) <= 1
            /\ e # NULL =>
                 /\ r.hit /\ r.res = RES_OK
                 /\ r.writes = <<>>
                 /\ r.st.dev = St.dev
                 /\ r.st.cache[e].data = in_data
                 /\ r.st.cache[e].dirty /\ r.st.cache[e].valid
                 /\ KeyOf(r.st, e) = <<pdrv, sector>>
                 /\ r.st.lru_head = e
                 /\ Range(LruSeq(r.st)) = Range(LruSeq(St))
                 /\ r.st.free_head = St.free_head
            /\ r.writes # <<>> =>
                 /\ e = NULL
                 /\ St.free_head = NULL
                 /\ St.lru_tail \in DirtySlots(St)
                 /\ r.writes = <<WriteCall(St, St.lru_tail, wr)>>
            /\ r.writes = <<>> => r.st.dev = St.dev

\* A write_block has just hit a slot that was not at the LRU head: the
\* slot is now the head and dirty, and the device still holds the
\* original content of its key.
C16_Witness ==
    /\ last.op = "write" /\ last.hit /\ last.res = RES_OK /\ last.nwrites = 0
    /\ CacheFull(St)
    /\ s_lru_head \in DirtySlots(St)
    /\ KeyOf(St, s_lru_head) = <<last.pdrv, last.sector>>
    /\ touched[2] # <<last.pdrv, last.sector>>
    /\ dev[KeyOf(St, s_lru_head)] = InitData

\* ----------------------------------------------------------------- C17
\* What a miss returns when eviction finds the LRU List empty.
NoVictimResult ==
    evict_entry([St EXCEPT !.lru_tail = NULL], RES_OK).st.evict_error

\* C17: the result returned when eviction finds no victim is distinct
\* from every result a failed write-back of the victim can make the same
\* read_block or write_block return.
C17_NoVictimDistinct ==
    \A <<pdrv, sector>> \in AllKeys, in_data \in WriteData,
       buf \in BOOLEAN, o \in ReadOracles :
        LET w == block_cache_write_block(St, pdrv, sector, in_data, o[1])
            r == block_cache_read_block(St, pdrv, sector, buf, o[1], o[2])
        IN  /\ (w.writes # <<>> /\ w.writes[1].res # RES_OK) =>
                   w.res = w.writes[1].res /\ w.res # NoVictimResult
            /\ (r.writes # <<>> /\ r.writes[1].res # RES_OK) =>
                   r.res = r.writes[1].res /\ r.res # NoVictimResult

\* ----------------------------------------------------------------- C18
\* Every slot that was valid and dirty in st and is no longer both in
\* r.st had its payload written to its key, successfully, by the call,
\* and the device holds that payload.
DirtyOnlyLeavesByWrite(st, r) ==
    \A i \in DirtySlots(st) \ DirtySlots(r.st) :
        /\ \E n \in DOMAIN r.writes : r.writes[n] = WriteCall(st, i, RES_OK)
        /\ r.st.dev[KeyOf(st, i)] = st.cache[i].data

\* C18: a valid dirty slot stops being dirty or valid only by a
\* successful device write of its payload to its own key: no read_block,
\* write_block or flush call, whatever the device answers, drops a dirty
\* payload without that write.
C18_DirtyOnlyLeavesByWrite ==
    /\ \A <<pdrv, sector>> \in Keys, buf \in BOOLEAN, o \in ReadOracles :
         DirtyOnlyLeavesByWrite(St,
             block_cache_read_block(St, pdrv, sector, buf, o[1], o[2]))
    /\ \A <<pdrv, sector>> \in Keys, in_data \in WriteData, wr \in DevResults :
         DirtyOnlyLeavesByWrite(St,
             block_cache_write_block(St, pdrv, sector, in_data, wr))
    /\ \A flush_all \in BOOLEAN, invalidate_all \in BOOLEAN,
          failAt \in Slots \cup {NULL}, err \in DevErrors :
         DirtyOnlyLeavesByWrite(St,
             block_cache_flush(St, flush_all, invalidate_all, failAt, err))

\* A flush has just written one dirty slot and failed on the next: the
\* first is clean and equal to the device, the second is still dirty.
C18_Witness ==
    /\ last.op = "flush" /\ last.res \in DevErrors /\ last.nwrites = 2
    /\ \E i \in ValidSlots(St), j \in DirtySlots(St) :
        /\ i < j
        /\ ~s_cache[i].dirty
        /\ s_cache[i].data \in WriteData
        /\ dev[KeyOf(St, i)] = s_cache[i].data
        /\ dev[KeyOf(St, j)] # s_cache[j].data

\* ----------------------------------------------------------------- C19
\* C19: whenever s_dirty_blocks is false no slot is both valid and dirty.
C19_FlagCoversDirtySlots ==
    ~s_dirty_blocks => DirtySlots(St) = {}

\* The flag is false after a complete flush that wrote a block back, and
\* the flushed slot is still cached.
C19_Witness ==
    /\ ~s_dirty_blocks
    /\ \E i \in ValidSlots(St) :
        s_cache[i].data \in WriteData /\ dev[KeyOf(St, i)] = s_cache[i].data

\* ----------------------------------------------------------------- C20
\* C20: whenever eviction removes a slot from the hash index the slot is
\* in the chain of the bucket its current key hashes to: every slot of
\* the LRU List, the tail that evict_entry takes in particular, is found
\* by the walk of hash_remove, which leaves it in no chain.
C20_VictimIsIndexed ==
    /\ s_lru_tail # NULL => s_lru_tail \in Range(LruSeq(St))
    /\ \A e \in Range(LruSeq(St)) :
        /\ e \in Range(Chain(St, hash_key(s_cache[e].pdrv, s_cache[e].sector)))
        /\ BucketsOf(hash_remove(St, e), e) = {}
        /\ hash_remove(St, e) # St

\* A miss has just evicted and reused a slot that a flush had
\* invalidated: the slot handed out first is at the LRU head again, the
\* Free List is empty and another invalidated slot is still linked.
C20_Witness ==
    /\ last.op \in {"read", "write"} /\ ~last.hit /\ last.res = RES_OK
    /\ s_free_head = NULL
    /\ s_lru_head = CACHE_SIZE - 1
    /\ s_cache[s_lru_head].valid
    /\ Len(LruSeq(St)) = CACHE_SIZE
    /\ \E j \in Range(LruSeq(St)) : ~s_cache[j].valid /\ BucketsOf(St, j) # {}

\* ----------------------------------------------------------------- C21
\* C21: a slot on the Free List is in no hash bucket chain, and the Free
\* List is acyclic and holds no slot twice.
C21_FreeListDisjointFromChains ==
    /\ Len(FreeSeq(St)) <= CACHE_SIZE
    /\ Cardinality(Range(FreeSeq(St))) = Len(FreeSeq(St))
    /\ \A i \in Range(FreeSeq(St)) : BucketsOf(St, i) = {}

\* A slot has just been taken from the Free List and chained, its link
\* field now ending a bucket chain, while the Free List still holds the
\* slot it used to link to.
C21_Witness ==
    /\ last.op \in {"read", "write"} /\ ~last.hit /\ last.res = RES_OK
    /\ s_free_head # NULL
    /\ \E b \in Buckets :
        /\ s_hash_table[b] # NULL
        /\ s_hash_table[b] > s_free_head
        /\ s_cache[s_hash_table[b]].hash_next = NULL

\* ----------------------------------------------------------------- C22
\* The LRU order of st restricted to the slots other than e that are
\* still in the LRU List of r.
OthersInOrder(before, after, e) ==
    SelectSeq(before, LAMBDA x : x # e /\ x \in after)

\* After a successful call for key k the slot holding k is the LRU head
\* and the other slots still listed are in the order they were in.
TouchedToFront(st, r, pdrv, sector) ==
    r.res = RES_OK =>
        LET e == hash_lookup(r.st, pdrv, sector)
            before == LruSeq(st)
            after == LruSeq(r.st)
        IN  /\ e # NULL
            /\ r.st.lru_head = e
            /\ after = <<e>> \o OthersInOrder(before, Range(after), e)
            /\ Range(before) \ Range(after) \subseteq {e}

FlushOne(st) == block_cache_flush(st, FALSE, FALSE, NULL, RES_ERROR)

\* n calls of flush(false, false) from st write one dirty slot each and
\* end with no slot dirty; two more calls write nothing.
RECURSIVE DrainsIn(_, _)
DrainsIn(st, n) ==
    LET r == FlushOne(st)
    IN  IF n = 0
          THEN /\ DirtySlots(st) = {}
               /\ r.res = RES_OK /\ r.writes = <<>>
               /\ FlushOne(r.st).writes = <<>>
               /\ DirtySlots(FlushOne(r.st).st) = {}
          ELSE /\ r.res = RES_OK
               /\ Len(r.writes) = 1
               /\ Cardinality(DirtySlots(r.st)) = n - 1
               /\ DirtySlots(r.st) \subseteq DirtySlots(st)
               /\ DrainsIn(r.st, n - 1)

\* C23: with a device whose writes succeed and no write_block in
\* between, repeated flush(false, false) calls issue at most one device
\* write each, reach a state with no dirty slot after exactly as many
\* writing calls as there were dirty slots, and write nothing from then on.
C23_IncrementalFlushDrains ==
    DrainsIn(St, Cardinality(DirtySlots(St)))

\* The flush(false, false) that wrote the last dirty slot: every slot
\* had been written to, none is dirty now and each equals the device.
C23_Witness ==
    /\ last.op = "flush" /\ ~last.flush_all /\ ~last.invalidate_all
    /\ last.res = RES_OK /\ last.nwrites = 1
    /\ CacheFull(St) /\ DirtySlots(St) = {}
    /\ s_dirty_blocks
    /\ \A i \in Slots : s_cache[i].data \in WriteData
                        /\ dev[KeyOf(St, i)] = s_cache[i].data

\* ----------------------------------------------------------------- C26
\* C26: the cache never stalls: whatever device reads or writes failed
\* before, with the device succeeding every read_block and write_block
\* returns success (a miss never finds the Free List and the LRU List
\* both empty).
C26_NeverStalls ==
    \A <<pdrv, sector>> \in Keys, buf \in BOOLEAN, in_data \in WriteData :
        /\ block_cache_read_block(St, pdrv, sector, buf, RES_OK, RES_OK).res = RES_OK
        /\ block_cache_write_block(St, pdrv, sector, in_data, RES_OK).res = RES_OK

\* ----------------------------------------------------------------- C27
\* C27: cache plus device behave as a plain device for single blocks:
\* whatever read_block, write_block and flush calls came before and
\* whichever device operations failed, a successful read_block(d, b, out)
\* returns the data of the most recent successful write_block(d, b), or
\* the device's original content when there was none.
C27_ReadsLatestWrite ==
    \A <<pdrv, sector>> \in Keys, o \in ReadOracles :
        LET r == block_cache_read_block(St, pdrv, sector, TRUE, o[1], o[2])
        IN  r.res = RES_OK => r.out = written[<<pdrv, sector>>]

\* A block was written, written back to the device, and written again
\* with other data: a read with buffer has just hit the second version
\* while the device holds the first.
C27_Witness ==
    /\ last.op = "read" /\ last.buf /\ last.res = RES_OK /\ last.hit
    /\ written[<<last.pdrv, last.sector>>] \in WriteVersions
    /\ dev[<<last.pdrv, last.sector>>] \in WriteVersions
    /\ dev[<<last.pdrv, last.sector>>] # written[<<last.pdrv, last.sector>>]

\* ----------------------------------------------------------------- C24
\* C24: read-ahead is one-shot.  A successful disk_read arms one probe
\* for (drive, sector + 1) and a failed one arms nothing; a disk_task
\* call with read-ahead armed runs that probe and no flush and leaves
\* read-ahead disarmed whether or not the probe succeeded; a disk_task
\* call with nothing armed runs no probe and exactly one incremental
\* flush; the call after a probe is again a flush.
C24_ReadAheadOneShot ==
    /\ \A sector \in GlueSectors, count \in Counts, o \in AnyDevice :
        LET r == disk_read(St, Gl, DEV_SD, sector, count, o)
        IN  /\ r.probes = <<>>
            /\ r.res = RES_OK =>
                 r.gl = [read_ahead |-> TRUE, last_pdrv |-> DEV_SD, last_sector |-> sector]
            /\ r.res # RES_OK => r.gl = Gl
    /\ \A sector \in GlueSectors, count \in Counts, buff \in WriteData, o \in AnyDevice :
        disk_write(St, Gl, DEV_SD, buff, sector, count, o).gl = Gl
    /\ \A o \in AnyDevice :
        LET t == disk_task(St, Gl, o)
        IN  /\ ~t.gl.read_ahead
            /\ t.gl.last_pdrv = last_pdrv /\ t.gl.last_sector = last_sector
            /\ read_ahead =>
                 /\ t.probes = <<<<last_pdrv, last_sector + 1>>>>
                 /\ t.flushes = <<>>
            /\ ~read_ahead =>
                 /\ t.probes = <<>>
                 /\ t.flushes = <<[flush_all |-> FALSE]>>
                 /\ t.nwrites <= 1
            /\ \A o2 \in AnyDevice :
                 LET t2 == disk_task(t.st, t.gl, o2)
                 IN  t2.probes = <<>> /\ t2.flushes = <<[flush_all |-> FALSE]>>

\* disk_task has just run the armed probe, the probe failed, and
\* read-ahead is disarmed.
C24_Witness ==
    /\ last.op = "task_probe" /\ last.res \in DevErrors
    /\ ~read_ahead
    /\ hash_lookup(St, last.pdrv, last.sector) = NULL

\* ----------------------------------------------------------------- C25
\* C25: the block the read-ahead probe fetches is none of the blocks the
\* preceding successful disk_read requested, for one sector and for
\* several alike.
C25_ProbeIsUnrequestedBlock ==
    \A sector \in GlueSectors, count \in Counts, o \in AnyDevice, o2 \in AnyDevice :
        LET r == disk_read(St, Gl, DEV_SD, sector, count, o)
            t == disk_task(r.st, r.gl, o2)
        IN  r.res = RES_OK =>
              \A n \in DOMAIN t.probes : t.probes[n] \notin Span(DEV_SD, sector, count)

\* ----------------------------------------------------------------- C28
\* C28: through the glue layer, on a working device, every disk_read
\* returns for each sector the data of the most recent disk_write that
\* covered it, whatever the sector counts of the calls before.
C28_GlueReadsLatestWrite ==
    \A sector \in GlueSectors, count \in Counts, o \in WorkingDevice :
        LET r == disk_read(St, Gl, DEV_SD, sector, count, o)
        IN  /\ r.res = RES_OK
            /\ \A n \in 1..count : r.out[n] = written[<<DEV_SD, sector + n - 1>>]

====
